---- MODULE Spec2Model ----
(***************************************************************************)
(* Model of the window registry of src-tauri/src/main.rs: WindowRegistry   *)
(* (a map label -> WindowState, a z-order counter and the focused label)   *)
(* and the operations that mutate it.  Every operation runs under the      *)
(* registry mutex, so each one is a single atomic action.                  *)
(***************************************************************************)
EXTENDS Integers, Sequences, FiniteSets, TLC

\* ---------------------------------------------------------------- bounds
\* z_order_counter is capped: no assignment happens once it reaches MaxCounter.
MaxCounter == 4
\* the millisecond clock runs over 0..MaxTime
MaxTime == 1
\* the cap on z_order_counter in the specification that also updates flags
MaxCounterU == 2
\* the cap on z_order_counter in the specification of cycle_windows
MaxCounterC == 3
\* the cap on z_order_counter in the specification of save and load
MaxCounterP == 2
\* the cap on z_order_counter in the specification of snap_window
MaxCounterS == 1
\* the cap on z_order_counter in the specification of repeated cycling
MaxCounterR == 6
\* the cap on z_order_counter in the specification of failing commands
MaxCounterE == 3
\* the cap on z_order_counter in the specification with fairness
MaxCounterL == 2
\* the cap on z_order_counter in the specification of the restored flags
MaxCounterF == 2

\* ---------------------------------------------------------------- inputs
Labels == {"w1", "w2", "w3"}
\* the labels used by the specification that also updates flags
LabelsU == {"w1", "w2"}
None == "None"
\* WindowConfig, reduced to its window_type
Configs == {"main"}
\* window_type arguments of create_app_window in the command specifications;
\* a WindowConfig there is reduced to its window_type as well
WindowTypes == {"main", "settings", "chat"}
Monitors == {"primary"}
\* Option<bool>: {} is None, {b} is Some(b)
OptBool == {{}, {TRUE}, {FALSE}}
\* Option<String> for monitor ids
OptMonitor == {None} \cup Monitors

VARIABLES
    windows,          \* WindowRegistry.windows : HashMap<String, WindowState>
    z_order_counter,  \* WindowRegistry.z_order_counter : u32
    focused_window,   \* WindowRegistry.focused_window : Option<String>
    now,              \* SystemTime::now() in milliseconds
    lastOp,           \* history variable: the last registry operation or failed command
    history,          \* history variable: <<label, z_order, operation>> of every assignment
    lock,             \* WindowRegistryState (the Mutex): None or the command holding it
    app,              \* the platform's webview windows: label -> geometry
    cyc,              \* the cycle_windows call in progress: its position and locals
    save,             \* the save_window_state call in progress
    file,             \* politicail_windows.json: NoFile or the saved Vec<WindowState>
    load,             \* the load_window_state call: its position, locals and result
    run,              \* history variable: the cycle_windows calls made in a row
    gaws              \* the get_all_window_states call in progress

cmdvars == <<lock, app, cyc>>
pvars == <<save, file, load, run, gaws>>
vars == <<windows, z_order_counter, focused_window, now, lastOp, history,
          lock, app, cyc, save, file, load, run, gaws>>
regvars == <<windows, z_order_counter, focused_window>>

\* ---------------------------------------------------------------- helpers
Live == DOMAIN windows

\* the record add_window builds (main.rs 79-89)
WindowState(label, config, z, t) ==
    [label |-> label, config |-> config, z_order |-> z,
     is_focused |-> TRUE, is_minimized |-> FALSE, is_maximized |-> FALSE,
     monitor_id |-> None, created_at |-> t, last_focused_at |-> t]

\* HashMap::insert: replaces the value of an existing key
Insert(ws, label, st) ==
    [l \in (DOMAIN ws) \cup {label} |-> IF l = label THEN st ELSE ws[l]]

\* HashMap::remove: no effect on a missing key
Remove(ws, label) ==
    [l \in (DOMAIN ws) \ {label} |-> ws[l]]

\* "if let Some(prev_focused) = &self.focused_window { if let Some(prev_window)
\*  = self.windows.get_mut(prev_focused) { prev_window.is_focused = false } }"
Unfocus(ws, prev) ==
    IF prev # None /\ prev \in DOMAIN ws
    THEN [ws EXCEPT ![prev].is_focused = FALSE]
    ELSE ws

\* variant: the key is created_at ("the most recently created window")
MostRecent_by_created(ws) ==
    {l \in DOMAIN ws :
        \A k \in DOMAIN ws : ws[k].created_at <= ws[l].created_at}

\* iter_mut().max_by_key(last_focused_at): a record with the maximal key; among
\* equal keys the one the HashMap happens to iterate last, i.e. any of them.
MostRecent(ws) ==
    {l \in DOMAIN ws :
        \A k \in DOMAIN ws : ws[k].last_focused_at <= ws[l].last_focused_at}

\* get_focused_window: Option<&WindowState>, as a set of at most one record
get_focused_window ==
    IF focused_window # None
    THEN (IF focused_window \in DOMAIN windows THEN {windows[focused_window]} ELSE {})
    ELSE {}

\* the orders in which HashMap::values() may yield the keys of a map
Perms(S) ==
    {p \in [1..Cardinality(S) -> S] :
        \A i, j \in 1..Cardinality(S) : i # j => p[i] # p[j]}

\* variant: the comparator is a.z_order.cmp(&b.z_order), ascending
InsertByZOrder_ascending(sorted, w) ==
    LET before == {i \in 1..Len(sorted) : sorted[i].z_order <= w.z_order}
        n == Cardinality(before)
    IN  SubSeq(sorted, 1, n) \o <<w>> \o SubSeq(sorted, n + 1, Len(sorted))

\* one step of the stable sort with comparator b.z_order.cmp(&a.z_order): w goes
\* behind every element that does not compare greater, i.e. whose z_order >= w's
InsertByZOrder(sorted, w) ==
    LET before == {i \in 1..Len(sorted) : sorted[i].z_order >= w.z_order}
        n == Cardinality(before)
    IN  SubSeq(sorted, 1, n) \o <<w>> \o SubSeq(sorted, n + 1, Len(sorted))

\* windows.sort_by(|a, b| b.z_order.cmp(&a.z_order))
RECURSIVE SortByZOrder(_)
SortByZOrder(seq) ==
    IF seq = <<>>
    THEN <<>>
    ELSE InsertByZOrder(SortByZOrder(SubSeq(seq, 1, Len(seq) - 1)), seq[Len(seq)])

\* get_windows_by_z_order: values().collect() in some iteration order, then
\* sorted; the set of the vectors it can return
get_windows_by_z_order ==
    {SortByZOrder([i \in 1..Len(p) |-> windows[p[i]]]) : p \in Perms(Live)}

\* ---------------------------------------------------------------- Init
\* no save_window_state call in progress
SaveIdle == [pc |-> "idle", windows |-> <<>>]

\* the save path does not exist
NoFile == [exists |-> FALSE, windows |-> <<>>]

\* no load_window_state call in progress.  reported_failures is what the call
\* hands back about snapshots it could not create.  attempts and quiet are
\* history fields: the label (or None) each creation gave, and whether only
\* this call has run since it started on an empty registry
LoadIdle ==
    [pc |-> "idle", saved_windows |-> <<>>, i |-> 1, label |-> None,
     restored_labels |-> <<>>, reported_failures |-> <<>>, attempts |-> <<>>,
     quiet |-> FALSE]

\* no cycle_windows call has completed since the last other operation.
\* focused holds the labels the last calls in a row focused, all in direction
\* forward, at most as many as there are records
RunIdle == [forward |-> FALSE, focused |-> <<>>]

\* no get_all_window_states call in progress
GawsIdle == [pc |-> "idle"]

\* no cycle_windows call in progress
CycIdle ==
    [pc |-> "idle", forward |-> FALSE, current_focused |-> None,
     windows |-> <<>>, next_window |-> None]

NoArgs == <<{}, {}, None>>

\* history variable: what the operation was and what it met
Op(name, label, args) ==
    [op |-> name, label |-> label, args |-> args,
     hit |-> label \in Live,
     foc |-> focused_window = label,
     rep |-> lastOp.op = name /\ lastOp.label = label]

\* history variable: a command returned Err(e) from its platform call, before
\* it called the registry
Err(name, label) == Op("Err: " \o name, label, NoArgs)

Init ==
    /\ windows = <<>>
    /\ z_order_counter = 0
    /\ focused_window = None
    /\ now = 0
    /\ lastOp = [op |-> "new", label |-> None, args |-> NoArgs,
                 hit |-> FALSE, foc |-> FALSE, rep |-> FALSE]
    /\ history = <<>>
    /\ lock = None
    /\ app = <<>>
    /\ cyc = CycIdle
    /\ save = SaveIdle
    /\ file = NoFile
    /\ load = LoadIdle
    /\ run = RunIdle
    /\ gaws = GawsIdle

\* ---------------------------------------------------------------- actions
add_window(label, config) ==
    /\ z_order_counter' = z_order_counter + 1
    /\ windows' = Insert(Unfocus(windows, focused_window), label,
                         WindowState(label, config, z_order_counter', now))
    /\ focused_window' = label
    /\ lastOp' = Op("add_window", label, NoArgs)
    /\ history' = Append(history, <<label, windows'[label].z_order, "add_window">>)
    /\ UNCHANGED now

\* variant: focus is reassigned whether or not the removed label was focused
remove_window_always_refocus(label) ==
    /\ LET ws == Remove(windows, label) IN
         IF DOMAIN ws = {}
         THEN /\ windows' = ws
              /\ focused_window' = None
         ELSE \E m \in MostRecent(ws) :
              /\ windows' = [ws EXCEPT ![m].is_focused = TRUE]
              /\ focused_window' = ws[m].label
    /\ lastOp' = Op("remove_window", label, NoArgs)
    /\ UNCHANGED <<z_order_counter, now, history>>

\* variant: the pointer is cleared but no remaining record takes the focus
remove_window_no_refocus(label) ==
    /\ LET ws == Remove(windows, label) IN
         IF focused_window = label
         THEN /\ windows' = ws
              /\ focused_window' = None
         ELSE /\ windows' = ws
              /\ UNCHANGED focused_window
    /\ lastOp' = Op("remove_window", label, NoArgs)
    /\ UNCHANGED <<z_order_counter, now, history>>

remove_window(label) ==
    /\ LET ws == Remove(windows, label) IN
         IF focused_window = label
         THEN IF DOMAIN ws = {}
              THEN /\ windows' = ws
                   /\ focused_window' = None
              ELSE \E m \in MostRecent(ws) :
                   /\ windows' = [ws EXCEPT ![m].is_focused = TRUE]
                   /\ focused_window' = ws[m].label
         ELSE /\ windows' = ws
              /\ UNCHANGED focused_window
    /\ lastOp' = Op("remove_window", label, NoArgs)
    /\ UNCHANGED <<z_order_counter, now, history>>

\* variant: the record takes the counter's value before the increment
focus_window_stale_counter(label) ==
    /\ LET ws == Unfocus(windows, focused_window) IN
         IF label \in DOMAIN ws
         THEN /\ z_order_counter' = z_order_counter + 1
              /\ windows' = [ws EXCEPT ![label].is_focused = TRUE,
                                       ![label].last_focused_at = now,
                                       ![label].z_order = z_order_counter]
              /\ focused_window' = label
              /\ history' = Append(history,
                                   <<label, windows'[label].z_order, "focus_window">>)
         ELSE /\ windows' = ws
              /\ UNCHANGED <<z_order_counter, focused_window, history>>
    /\ lastOp' = Op("focus_window", label, NoArgs)
    /\ UNCHANGED now

\* variant: focus does not raise the record (z_order is not assigned)
focus_window_no_raise(label) ==
    /\ LET ws == Unfocus(windows, focused_window) IN
         IF label \in DOMAIN ws
         THEN /\ z_order_counter' = z_order_counter + 1
              /\ windows' = [ws EXCEPT ![label].is_focused = TRUE,
                                       ![label].last_focused_at = now]
              /\ focused_window' = label
              /\ history' = Append(history,
                                   <<label, windows'[label].z_order, "focus_window">>)
         ELSE /\ windows' = ws
              /\ UNCHANGED <<z_order_counter, focused_window, history>>
    /\ lastOp' = Op("focus_window", label, NoArgs)
    /\ UNCHANGED now

\* variant: focusing the record that is already focused only re-stamps it
focus_window_skip_focused(label) ==
    /\ LET ws == Unfocus(windows, focused_window) IN
         IF label \in DOMAIN ws
         THEN IF focused_window = label
              THEN /\ windows' = [ws EXCEPT ![label].is_focused = TRUE,
                                            ![label].last_focused_at = now]
                   /\ UNCHANGED <<z_order_counter, focused_window, history>>
              ELSE /\ z_order_counter' = z_order_counter + 1
                   /\ windows' = [ws EXCEPT ![label].is_focused = TRUE,
                                            ![label].last_focused_at = now,
                                            ![label].z_order = z_order_counter']
                   /\ focused_window' = label
                   /\ history' = Append(history,
                                  <<label, windows'[label].z_order, "focus_window">>)
         ELSE /\ windows' = ws
              /\ UNCHANGED <<z_order_counter, focused_window, history>>
    /\ lastOp' = Op("focus_window", label, NoArgs)
    /\ UNCHANGED now

focus_window(label) ==
    /\ LET ws == Unfocus(windows, focused_window) IN
         IF label \in DOMAIN ws
         THEN /\ z_order_counter' = z_order_counter + 1
              /\ windows' = [ws EXCEPT ![label].is_focused = TRUE,
                                       ![label].last_focused_at = now,
                                       ![label].z_order = z_order_counter']
              /\ focused_window' = label
              /\ history' = Append(history,
                                   <<label, windows'[label].z_order, "focus_window">>)
         ELSE /\ windows' = ws
              /\ UNCHANGED <<z_order_counter, focused_window, history>>
    /\ lastOp' = Op("focus_window", label, NoArgs)
    /\ UNCHANGED now

\* variant: monitor_id is stored as passed, so None clears it
update_window_state_store_monitor(label, is_minimized, is_maximized, monitor_id) ==
    /\ IF label \in DOMAIN windows
       THEN windows' = [windows EXCEPT
                ![label].is_minimized =
                    IF is_minimized # {} THEN (CHOOSE b \in is_minimized : TRUE) ELSE @,
                ![label].is_maximized =
                    IF is_maximized # {} THEN (CHOOSE b \in is_maximized : TRUE) ELSE @,
                ![label].monitor_id = monitor_id]
       ELSE UNCHANGED windows
    /\ lastOp' = Op("update_window_state", label,
                    <<is_minimized, is_maximized, monitor_id>>)
    /\ UNCHANGED <<z_order_counter, focused_window, now, history>>

update_window_state(label, is_minimized, is_maximized, monitor_id) ==
    /\ IF label \in DOMAIN windows
       THEN windows' = [windows EXCEPT
                ![label].is_minimized =
                    IF is_minimized # {} THEN (CHOOSE b \in is_minimized : TRUE) ELSE @,
                ![label].is_maximized =
                    IF is_maximized # {} THEN (CHOOSE b \in is_maximized : TRUE) ELSE @,
                ![label].monitor_id =
                    IF monitor_id # None THEN monitor_id ELSE @]
       ELSE UNCHANGED windows
    /\ lastOp' = Op("update_window_state", label,
                    <<is_minimized, is_maximized, monitor_id>>)
    /\ UNCHANGED <<z_order_counter, focused_window, now, history>>

\* the command get_window_list: locks the registry and returns the cloned
\* get_windows_by_z_order(); the registry is borrowed immutably
get_window_list ==
    /\ lastOp' = Op("get_window_list", None, NoArgs)
    /\ UNCHANGED <<windows, z_order_counter, focused_window, now, history>>

\* the wall clock advances between operations
Tick ==
    /\ now < MaxTime
    /\ now' = now + 1
    /\ UNCHANGED <<windows, z_order_counter, focused_window, lastOp, history>>

\* Registry operations on their own: registration, removal, focus.  The counter
\* is capped: an operation that would assign a z_order is disabled at the cap.
Next ==
    \/ \E l \in Labels, c \in Configs :
          z_order_counter < MaxCounter /\ add_window(l, c) /\ UNCHANGED <<cmdvars, pvars>>
    \/ \E l \in Labels : remove_window(l) /\ UNCHANGED <<cmdvars, pvars>>
    \/ \E l \in Labels :
          /\ l \in Live => z_order_counter < MaxCounter
          /\ focus_window(l) /\ UNCHANGED <<cmdvars, pvars>>
    \/ get_window_list /\ UNCHANGED <<cmdvars, pvars>>
    \/ Tick /\ UNCHANGED <<cmdvars, pvars>>

Spec == Init /\ [][Next]_vars

\* The same operations together with update_window_state, over fewer labels.
NextU ==
    \/ \E l \in LabelsU, c \in Configs :
          z_order_counter < MaxCounterU /\ add_window(l, c) /\ UNCHANGED <<cmdvars, pvars>>
    \/ \E l \in LabelsU : remove_window(l) /\ UNCHANGED <<cmdvars, pvars>>
    \/ \E l \in LabelsU :
          /\ l \in Live => z_order_counter < MaxCounterU
          /\ focus_window(l) /\ UNCHANGED <<cmdvars, pvars>>
    \/ \E l \in LabelsU, mi \in OptBool, ma \in OptBool, mo \in OptMonitor :
          update_window_state(l, mi, ma, mo) /\ UNCHANGED <<cmdvars, pvars>>
    \/ Tick /\ UNCHANGED <<cmdvars, pvars>>

SpecU == Init /\ [][NextU]_vars

\* ------------------------------------------------- commands and window events
\* format!("{}_{}", window_type, now.as_millis())
MkLabel(window_type, t) == window_type \o "_" \o ToString(t)

\* the labels commands are called with
LabelsC == {MkLabel(ty, 0) : ty \in WindowTypes}

\* inner_size and position the builder gives a new window
\* (snapped is a history field: the region of the last completed snap_window)
ConfigRect(config) ==
    [x |-> 0, y |-> 0, width |-> 800, height |-> 600, maximized |-> FALSE,
     snapped |-> None]

\* create_app_window: build the platform window (fails for a label the platform
\* already has, or for any platform reason), register it, attach the handlers
create_app_window(window_type, config) ==
    LET label == MkLabel(window_type, now) IN
    \/ /\ lastOp' = Err("create_app_window", label)   \* builder.build() is Err
       /\ UNCHANGED <<windows, z_order_counter, focused_window, now, history,
                      cmdvars>>
    \/ /\ label \notin DOMAIN app
       /\ lock = None
       /\ app' = Insert(app, label, ConfigRect(config))
       /\ add_window(label, config)
       /\ UNCHANGED <<lock, cyc>>

\* WindowEvent::Focused(true) of a window created by create_app_window
on_focused(label) ==
    /\ label \in DOMAIN app
    /\ lock = None
    /\ focus_window(label)
    /\ UNCHANGED cmdvars

\* WindowEvent::CloseRequested of such a window; the platform then destroys it
on_close_requested(label) ==
    /\ label \in DOMAIN app
    /\ lock = None
    /\ remove_window(label)
    /\ app' = Remove(app, label)
    /\ UNCHANGED <<lock, cyc>>

\* variant: the record is removed before window.close() is called
close_app_window_remove_first(label) ==
    \/ /\ label \in DOMAIN app
       /\ lock = None
       /\ LET ws == Remove(windows, label) IN
            IF focused_window = label
            THEN IF DOMAIN ws = {}
                 THEN /\ windows' = ws
                      /\ focused_window' = None
                 ELSE \E m \in MostRecent(ws) :
                      /\ windows' = [ws EXCEPT ![m].is_focused = TRUE]
                      /\ focused_window' = ws[m].label
            ELSE /\ windows' = ws
                 /\ UNCHANGED focused_window
       /\ lastOp' = Err("close_app_window", label)
       /\ UNCHANGED <<z_order_counter, now, history, cmdvars>>
    \/ /\ lock = None
       /\ remove_window(label)
       /\ UNCHANGED cmdvars

\* close_app_window: window.close() if the platform has the window (Err is
\* returned at once), then remove_window under the lock
close_app_window(label) ==
    \/ /\ label \in DOMAIN app
       /\ lastOp' = Err("close_app_window", label)
       /\ UNCHANGED <<windows, z_order_counter, focused_window, now, history,
                      cmdvars>>
    \/ /\ lock = None
       /\ remove_window(label)
       /\ UNCHANGED cmdvars

\* focus_app_window: window.set_focus() if the platform has the window (Err is
\* returned at once), then focus_window under the lock
focus_app_window(label) ==
    \/ /\ label \in DOMAIN app
       /\ lastOp' = Err("focus_app_window", label)
       /\ UNCHANGED <<windows, z_order_counter, focused_window, now, history,
                      cmdvars>>
    \/ /\ lock = None
       /\ focus_window(label)
       /\ UNCHANGED cmdvars

\* ------------------------------------------------------------- cycle_windows
\* windows.get(k): Option<&String> for a 0-based index
Get(ws, k) == IF k >= 0 /\ k < Len(ws) THEN ws[k + 1] ELSE None

\* windows.iter().position(|w| w == &current): the first 0-based index, as a set
Position(ws, current) ==
    LET hits == {k \in 0..(Len(ws) - 1) : ws[k + 1] = current}
    IN  IF hits = {} THEN {} ELSE {CHOOSE k \in hits : \A j \in hits : k <= j}

\* variant: the forward index is not reduced modulo the length
next_window_no_wrap(ws, current_focused, forward) ==
    IF current_focused # None
    THEN IF Position(ws, current_focused) # {}
         THEN LET current_index == CHOOSE k \in Position(ws, current_focused) : TRUE
              IN  IF forward
                  THEN Get(ws, current_index + 1)
                  ELSE IF current_index = 0
                       THEN Get(ws, Len(ws) - 1)
                       ELSE Get(ws, current_index - 1)
         ELSE Get(ws, 0)
    ELSE Get(ws, 0)

\* let next_window = ... (main.rs 603-619), for a non-empty vector
next_window(ws, current_focused, forward) ==
    IF current_focused # None
    THEN IF Position(ws, current_focused) # {}
         THEN LET current_index == CHOOSE k \in Position(ws, current_focused) : TRUE
              IN  IF forward
                  THEN Get(ws, (current_index + 1) % Len(ws))
                  ELSE IF current_index = 0
                       THEN Get(ws, Len(ws) - 1)
                       ELSE Get(ws, current_index - 1)
         ELSE Get(ws, 0)
    ELSE Get(ws, 0)

\* first lock block: the focused label is read
cycle_read_focused(forward) ==
    /\ cyc.pc = "idle"
    /\ lock = None
    /\ cyc' = [CycIdle EXCEPT
                 !.pc = "read_windows",
                 !.forward = forward,
                 !.current_focused =
                     IF get_focused_window = {} THEN None
                     ELSE (CHOOSE w \in get_focused_window : TRUE).label]
    /\ UNCHANGED <<windows, z_order_counter, focused_window, now, lastOp, history,
                   lock, app>>

\* second lock block: the labels by z-order are read; then the target is
\* chosen, or Ok(()) is returned at once for an empty vector
cycle_read_windows ==
    /\ cyc.pc = "read_windows"
    /\ lock = None
    /\ \E s \in get_windows_by_z_order :
         LET ws == [i \in 1..Len(s) |-> s[i].label] IN
         IF ws = <<>>
         THEN cyc' = CycIdle
         ELSE cyc' = [cyc EXCEPT
                        !.pc = "focus",
                        !.windows = ws,
                        !.next_window = next_window(ws, cyc.current_focused, cyc.forward)]
    /\ UNCHANGED <<windows, z_order_counter, focused_window, now, lastOp, history,
                   lock, app>>

\* if let Some(window_label) = next_window { focus_app_window(..).await? }
cycle_focus ==
    /\ cyc.pc = "focus"
    /\ cyc' = CycIdle
    /\ IF cyc.next_window = None
       THEN UNCHANGED <<windows, z_order_counter, focused_window, now, lastOp,
                        history, lock, app>>
       ELSE \/ /\ cyc.next_window \in DOMAIN app      \* set_focus is Err
               /\ lastOp' = Err("focus_app_window", cyc.next_window)
               /\ UNCHANGED <<windows, z_order_counter, focused_window, now,
                              history, lock, app>>
            \/ /\ lock = None
               /\ focus_window(cyc.next_window)
               /\ UNCHANGED <<lock, app>>

\* cycle_windows next to the commands and events of other contexts, all within
\* one millisecond
NextC ==
    \/ \E ty \in WindowTypes :
          /\ z_order_counter < MaxCounterC
          /\ create_app_window(ty, ty) /\ UNCHANGED pvars
    \/ \E l \in LabelsC :
          /\ l \in Live => z_order_counter < MaxCounterC
          /\ on_focused(l) /\ UNCHANGED pvars
    \/ \E l \in LabelsC : on_close_requested(l) /\ UNCHANGED pvars
    \/ \E l \in LabelsC : close_app_window(l) /\ UNCHANGED pvars
    \/ \E l \in LabelsC :
          /\ l \in Live => z_order_counter < MaxCounterC
          /\ focus_app_window(l) /\ UNCHANGED pvars
    \/ \E f \in BOOLEAN : cycle_read_focused(f) /\ UNCHANGED pvars
    \/ cycle_read_windows /\ UNCHANGED pvars
    \/ /\ cyc.next_window \in Live => z_order_counter < MaxCounterC
       /\ cycle_focus /\ UNCHANGED pvars

SpecC == Init /\ [][NextC]_vars

\* ----------------------------------------------------------- repeated cycling
\* the last n elements of a sequence
LastN(seq, n) ==
    IF Len(seq) <= n THEN seq ELSE SubSeq(seq, Len(seq) - n + 1, Len(seq))

\* another command or event runs between two cycle_windows calls
Interrupt ==
    /\ cyc.pc = "idle"
    /\ run' = RunIdle
    /\ UNCHANGED <<save, file, load, gaws>>

\* the call that ends has focused its target (the row goes on, or starts anew
\* with the other direction), or it has returned the Err of set_focus
Counted ==
    /\ run' = IF focused_window' = cyc.next_window /\ history' # history
              THEN [forward |-> cyc.forward,
                    focused |->
                        LastN(Append(IF run.forward = cyc.forward
                                     THEN run.focused ELSE <<>>,
                                     cyc.next_window),
                              Cardinality(Live))]
              ELSE RunIdle
    /\ UNCHANGED <<save, file, load, gaws>>

\* cycle_windows called again and again, each call running to its end before
\* anything else starts; windows are created, focused and closed in between
NextR ==
    \/ \E ty \in WindowTypes :
          /\ z_order_counter < MaxCounterR
          /\ create_app_window(ty, ty) /\ Interrupt
    \/ \E l \in LabelsC :
          /\ l \in Live => z_order_counter < MaxCounterR
          /\ on_focused(l) /\ Interrupt
    \/ \E l \in LabelsC : on_close_requested(l) /\ Interrupt
    \/ \E f \in BOOLEAN : cycle_read_focused(f) /\ UNCHANGED pvars
    \/ cycle_read_windows /\ UNCHANGED pvars
    \/ /\ cyc.next_window \in Live => z_order_counter < MaxCounterR
       /\ cycle_focus /\ Counted

SpecR == Init /\ [][NextR]_vars

\* ------------------------------------------------------------ save and load
\* minimize_window: window.minimize() if the platform has the window (Err is
\* returned at once), then update_window_state(label, Some(true), None, None)
minimize_window(label) ==
    \/ /\ label \in DOMAIN app
       /\ lastOp' = Err("minimize_window", label)
       /\ UNCHANGED <<windows, z_order_counter, focused_window, now, history,
                      cmdvars>>
    \/ /\ lock = None
       /\ update_window_state(label, {TRUE}, {}, None)
       /\ UNCHANGED cmdvars

\* maximize_window: the same with window.maximize() and (None, Some(true), None)
maximize_window(label) ==
    \/ /\ label \in DOMAIN app
       /\ lastOp' = Err("maximize_window", label)
       /\ UNCHANGED <<windows, z_order_counter, focused_window, now, history,
                      cmdvars>>
    \/ /\ lock = None
       /\ update_window_state(label, {}, {TRUE}, None)
       /\ UNCHANGED cmdvars

\* unmaximize_window: the same with window.unmaximize() and (None, Some(false), None)
unmaximize_window(label) ==
    \/ /\ label \in DOMAIN app
       /\ lastOp' = Err("unmaximize_window", label)
       /\ UNCHANGED <<windows, z_order_counter, focused_window, now, history,
                      cmdvars>>
    \/ /\ lock = None
       /\ update_window_state(label, {}, {FALSE}, None)
       /\ UNCHANGED cmdvars

\* the commands whose platform call may fail, called one after another
NextE ==
    \/ \E ty \in WindowTypes :
          /\ z_order_counter < MaxCounterE
          /\ create_app_window(ty, ty) /\ UNCHANGED pvars
    \/ \E l \in LabelsC : close_app_window(l) /\ UNCHANGED pvars
    \/ \E l \in LabelsC :
          /\ l \in Live => z_order_counter < MaxCounterE
          /\ focus_app_window(l) /\ UNCHANGED pvars
    \/ \E l \in LabelsC : minimize_window(l) /\ UNCHANGED pvars
    \/ \E l \in LabelsC : maximize_window(l) /\ UNCHANGED pvars
    \/ \E l \in LabelsC : unmaximize_window(l) /\ UNCHANGED pvars

SpecE == Init /\ [][NextE]_vars

\* save_window_state, first part: the lock is taken (the guard lives until the
\* function returns) and the records are cloned in z-order
save_lock ==
    /\ save.pc = "idle"
    /\ lock = None
    /\ lock' = "save_window_state"
    /\ \E s \in get_windows_by_z_order : save' = [pc |-> "write", windows |-> s]
    /\ UNCHANGED <<windows, z_order_counter, focused_window, now, lastOp, history,
                   app, cyc, file, load, run, gaws>>

\* variant: an Err of the write leaves the guard alive
save_write_err_keeps_lock ==
    /\ save.pc = "write"
    /\ \/ /\ file' = [exists |-> TRUE, windows |-> save.windows]
          /\ lock' = None
       \/ UNCHANGED <<file, lock>>
    /\ save' = SaveIdle
    /\ UNCHANGED <<windows, z_order_counter, focused_window, now, lastOp, history,
                   app, cyc, load, run, gaws>>

\* save_window_state, second part: to_string_pretty and fs::write (the derived
\* Serialize writes every field, the file holds the vector as it is), or the
\* write is Err; the function returns and the guard is dropped
save_write ==
    /\ save.pc = "write"
    /\ \/ file' = [exists |-> TRUE, windows |-> save.windows]
       \/ UNCHANGED file
    /\ save' = SaveIdle
    /\ lock' = None
    /\ UNCHANGED <<windows, z_order_counter, focused_window, now, lastOp, history,
                   app, cyc, load, run, gaws>>

\* load_window_state up to the loop: no file gives Ok(vec![]); a file that
\* cannot be read or parsed gives Err; otherwise the saved vector is parsed
load_read ==
    /\ load.pc = "idle"
    /\ \/ /\ ~file.exists
          /\ load' = [LoadIdle EXCEPT !.pc = "done"]
       \/ /\ file.exists
          /\ load' = [LoadIdle EXCEPT !.pc = "failed"]
       \/ /\ file.exists
          /\ load' = [LoadIdle EXCEPT !.pc = "create",
                                      !.saved_windows = file.windows,
                                      !.quiet = (Live = {} /\ DOMAIN app = {})]
    /\ UNCHANGED <<windows, z_order_counter, focused_window, now, lastOp, history,
                   cmdvars, save, file, run, gaws>>

\* variant: the creation result is propagated with `?`
load_create_propagate_err ==
    /\ load.pc = "create"
    /\ load.i <= Len(load.saved_windows)
    /\ LET window_state == load.saved_windows[load.i]
           label == MkLabel(window_state.config, now)
       IN  /\ create_app_window(window_state.config, window_state.config)
           /\ IF label \in DOMAIN app' /\ label \notin DOMAIN app
              THEN load' = [load EXCEPT
                              !.pc = "restore",
                              !.label = label,
                              !.restored_labels = Append(@, label),
                              !.attempts = Append(@, label)]
              ELSE load' = [load EXCEPT
                              !.pc = "failed",
                              !.attempts = Append(@, None)]
    /\ UNCHANGED <<save, file, run, gaws>>

\* one iteration of the loop, first half: create_app_window(...).await; Ok
\* pushes the label, Err is dropped and the loop goes on
load_create ==
    /\ load.pc = "create"
    /\ load.i <= Len(load.saved_windows)
    /\ LET window_state == load.saved_windows[load.i]
           label == MkLabel(window_state.config, now)
       IN  /\ create_app_window(window_state.config, window_state.config)
           /\ IF label \in DOMAIN app' /\ label \notin DOMAIN app
              THEN load' = [load EXCEPT
                              !.pc = "restore",
                              !.label = label,
                              !.restored_labels = Append(@, label),
                              !.attempts = Append(@, label)]
              ELSE load' = [load EXCEPT
                              !.i = @ + 1,
                              !.attempts = Append(@, None)]
    /\ UNCHANGED <<save, file, run, gaws>>

\* second half: move_window and resize_app_window (results dropped), then
\* minimize_window or else maximize_window (results dropped)
load_restore ==
    /\ load.pc = "restore"
    /\ LET window_state == load.saved_windows[load.i]
           label == load.label
       IN  /\ IF window_state.is_minimized
              THEN minimize_window(label)
              ELSE IF window_state.is_maximized
                   THEN maximize_window(label)
                   ELSE UNCHANGED <<windows, z_order_counter, focused_window, now,
                                    lastOp, history, cmdvars>>
    /\ load' = [load EXCEPT !.pc = "create", !.i = @ + 1, !.label = None]
    /\ UNCHANGED <<save, file, run, gaws>>

\* Ok(restored_labels)
load_return ==
    /\ load.pc = "create"
    /\ load.i > Len(load.saved_windows)
    /\ load' = [load EXCEPT !.pc = "done"]
    /\ UNCHANGED <<windows, z_order_counter, focused_window, now, lastOp, history,
                   cmdvars, save, file, run, gaws>>

\* the application exits and starts again: main() manages a new registry; the
\* file stays
restart ==
    /\ save.pc = "idle"
    /\ gaws.pc = "idle"
    /\ load.pc \in {"idle", "done", "failed"}
    /\ windows' = <<>>
    /\ z_order_counter' = 0
    /\ focused_window' = None
    /\ lastOp' = [op |-> "new", label |-> None, args |-> NoArgs,
                  hit |-> FALSE, foc |-> FALSE, rep |-> FALSE]
    /\ history' = <<>>
    /\ lock' = None
    /\ app' = <<>>
    /\ cyc' = CycIdle
    /\ save' = SaveIdle
    /\ load' = LoadIdle
    /\ gaws' = GawsIdle
    /\ UNCHANGED <<now, file, run>>

\* a step of another context while a load_window_state call exists
Meanwhile ==
    /\ load' = IF load.pc = "idle" THEN load ELSE [load EXCEPT !.quiet = FALSE]
    /\ UNCHANGED <<save, file, run, gaws>>

\* save_window_state and load_window_state next to window creation and window
\* events, all within one millisecond
NextP ==
    \/ \E ty \in WindowTypes :
          /\ z_order_counter < MaxCounterP
          /\ create_app_window(ty, ty) /\ Meanwhile
    \/ \E l \in LabelsC :
          /\ l \in Live => z_order_counter < MaxCounterP
          /\ on_focused(l) /\ Meanwhile
    \/ \E l \in LabelsC : on_close_requested(l) /\ Meanwhile
    \/ save_lock
    \/ save_write
    \/ restart
    \/ load_read
    \/ z_order_counter < MaxCounterP /\ load_create
    \/ load_restore
    \/ load_return

SpecP == Init /\ [][NextP]_vars

\* ---------------------------------------------------------- restored flags
\* the window types and labels of the two specifications that follow
WindowTypesL == {"main"}
LabelsL == {MkLabel(ty, 0) : ty \in WindowTypesL}

\* windows are created, minimized and maximized, saved, and restored after a
\* restart
NextF ==
    \/ \E ty \in WindowTypesL :
          /\ z_order_counter < MaxCounterF
          /\ create_app_window(ty, ty) /\ Meanwhile
    \/ \E l \in LabelsL : minimize_window(l) /\ Meanwhile
    \/ \E l \in LabelsL : maximize_window(l) /\ Meanwhile
    \/ save_lock
    \/ save_write
    \/ restart
    \/ load_read
    \/ z_order_counter < MaxCounterF /\ load_create
    \/ load_restore
    \/ load_return

SpecF == Init /\ [][NextF]_vars

\* ------------------------------------------------------ the lock and progress
\* get_all_window_states, first part: the lock is taken; the guard lives until
\* the function returns
gaws_lock ==
    /\ gaws.pc = "idle"
    /\ lock = None
    /\ lock' = "get_all_window_states"
    /\ gaws' = [pc |-> "collect"]
    /\ UNCHANGED <<windows, z_order_counter, focused_window, now, lastOp, history,
                   app, cyc, save, file, load, run>>

\* second part: the loop over the records asks the platform for each window's
\* geometry; the first Err is returned with `?`, otherwise Ok(result); either
\* way the guard is dropped
gaws_return ==
    /\ gaws.pc = "collect"
    /\ gaws' = GawsIdle
    /\ lock' = None
    /\ UNCHANGED <<windows, z_order_counter, focused_window, now, lastOp, history,
                   app, cyc, save, file, load, run>>

\* the steps of the calls in progress, with the counter's cap
cycle_focus_L ==
    /\ cyc.next_window \in Live => z_order_counter < MaxCounterL
    /\ cycle_focus /\ Meanwhile
load_create_L == z_order_counter < MaxCounterL /\ load_create

\* every command and handler that takes the lock, side by side
NextL ==
    \/ \E ty \in WindowTypesL :
          /\ z_order_counter < MaxCounterL
          /\ create_app_window(ty, ty) /\ Meanwhile
    \/ \E l \in LabelsL :
          /\ l \in Live => z_order_counter < MaxCounterL
          /\ on_focused(l) /\ Meanwhile
    \/ \E l \in LabelsL : minimize_window(l) /\ Meanwhile
    \/ save_lock
    \/ save_write
    \/ gaws_lock
    \/ gaws_return
    \/ restart
    \/ load_read
    \/ load_create_L
    \/ load_restore
    \/ load_return
    \/ \E f \in BOOLEAN : cycle_read_focused(f) /\ Meanwhile
    \/ cycle_read_windows /\ Meanwhile
    \/ cycle_focus_L

\* a call in progress is scheduled again and again, and a call that waits for
\* the lock gets it if the lock is free again and again
FairL ==
    /\ WF_vars(save_write)
    /\ WF_vars(gaws_return)
    /\ SF_vars(cycle_read_windows /\ Meanwhile)
    /\ SF_vars(cycle_focus_L)
    /\ SF_vars(load_create_L)
    /\ SF_vars(load_restore)
    /\ WF_vars(load_return)

SpecL == Init /\ [][NextL]_vars /\ FairL

\* --------------------------------------------------------------- snap_window
SnapPositions ==
    {"Left", "Right", "Top", "Bottom", "TopLeft", "TopRight", "BottomLeft",
     "BottomRight", "Center", "Maximize"}

\* let monitor_width = 1920.0; let monitor_height = 1080.0 (f64; every value
\* computed from them below is a whole number, so integers stand for them)
monitor_width == 1920
monitor_height == 1080
\* monitor_width / 2.0, monitor_height / 2.0
half_width == monitor_width \div 2
half_height == monitor_height \div 2
\* x * 0.7 in f64 followed by the truncating cast: 1920.0 * 0.7 is 1344.0 and
\* 1080.0 * 0.7 is 756.0
Times07(x) == (x * 7) \div 10

\* variant: the centered rectangle's offset is not halved
SnapRect_offset_not_halved(position) ==
    CASE position = "Left" ->
           [x |-> 0, y |-> 0, width |-> half_width, height |-> monitor_height]
      [] position = "Right" ->
           [x |-> half_width, y |-> 0, width |-> half_width, height |-> monitor_height]
      [] position = "Top" ->
           [x |-> 0, y |-> 0, width |-> monitor_width, height |-> half_height]
      [] position = "Bottom" ->
           [x |-> 0, y |-> half_height, width |-> monitor_width, height |-> half_height]
      [] position = "TopLeft" ->
           [x |-> 0, y |-> 0, width |-> half_width, height |-> half_height]
      [] position = "TopRight" ->
           [x |-> half_width, y |-> 0, width |-> half_width, height |-> half_height]
      [] position = "BottomLeft" ->
           [x |-> 0, y |-> half_height, width |-> half_width, height |-> half_height]
      [] position = "BottomRight" ->
           [x |-> half_width, y |-> half_height, width |-> half_width,
            height |-> half_height]
      [] position = "Center" ->
           LET center_width == Times07(monitor_width)
               center_height == Times07(monitor_height)
           IN  [x |-> monitor_width - center_width,
                y |-> monitor_height - center_height,
                width |-> center_width, height |-> center_height]

\* the position and size snap_window sets for a region other than Maximize
SnapRect(position) ==
    CASE position = "Left" ->
           [x |-> 0, y |-> 0, width |-> half_width, height |-> monitor_height]
      [] position = "Right" ->
           [x |-> half_width, y |-> 0, width |-> half_width, height |-> monitor_height]
      [] position = "Top" ->
           [x |-> 0, y |-> 0, width |-> monitor_width, height |-> half_height]
      [] position = "Bottom" ->
           [x |-> 0, y |-> half_height, width |-> monitor_width, height |-> half_height]
      [] position = "TopLeft" ->
           [x |-> 0, y |-> 0, width |-> half_width, height |-> half_height]
      [] position = "TopRight" ->
           [x |-> half_width, y |-> 0, width |-> half_width, height |-> half_height]
      [] position = "BottomLeft" ->
           [x |-> 0, y |-> half_height, width |-> half_width, height |-> half_height]
      [] position = "BottomRight" ->
           [x |-> half_width, y |-> half_height, width |-> half_width,
            height |-> half_height]
      [] position = "Center" ->
           LET center_width == Times07(monitor_width)
               center_height == Times07(monitor_height)
           IN  [x |-> (monitor_width - center_width) \div 2,
                y |-> (monitor_height - center_height) \div 2,
                width |-> center_width, height |-> center_height]

\* snap_window: nothing for a label the platform does not have; otherwise
\* set_position then set_size (or maximize), each of which may be Err and ends
\* the command; the registry is not consulted
snap_window(label, position) ==
    /\ IF label \notin DOMAIN app
       THEN UNCHANGED app
       ELSE IF position = "Maximize"
            THEN \/ UNCHANGED app
                 \/ app' = [app EXCEPT ![label].maximized = TRUE,
                                       ![label].snapped = position]
            ELSE LET r == SnapRect(position) IN
                 \/ UNCHANGED app
                 \/ app' = [app EXCEPT ![label].x = r.x, ![label].y = r.y,
                                       ![label].snapped = None]
                 \/ app' = [app EXCEPT ![label].x = r.x, ![label].y = r.y,
                                       ![label].width = r.width,
                                       ![label].height = r.height,
                                       ![label].snapped = position]
    /\ UNCHANGED <<windows, z_order_counter, focused_window, now, lastOp, history,
                   lock, cyc, pvars>>

\* windows are created and snapped
NextS ==
    \/ \E ty \in WindowTypes :
          /\ z_order_counter < MaxCounterS
          /\ create_app_window(ty, ty) /\ UNCHANGED pvars
    \/ \E l \in LabelsC, position \in SnapPositions : snap_window(l, position)

SpecS == Init /\ [][NextS]_vars

\* ================================================================ claims
FocusedLabels == {l \in Live : windows[l].is_focused}

\* C1: after every sequence of add_window, remove_window and focus_window calls
\* exactly one record has is_focused when the registry is non-empty, and none
\* has when it is empty.
C1_ExactlyOneFocused ==
    IF Live = {} THEN FocusedLabels = {} ELSE Cardinality(FocusedLabels) = 1

\* C2: focus_window with a label that is not in the registry changes no record,
\* not the focused_window pointer and not z_order_counter.
C2_FocusUnknownNoOp ==
    [][\A l \in Labels :
          (l \notin Live /\ focus_window(l)) => UNCHANGED regvars]_vars

\* C3: the z_order values of live records are pairwise distinct, every live
\* record holds the value of its last assignment, and every assignment made by
\* add_window or focus_window is strictly greater than every earlier one.
C3_ZOrderDistinctIncreasing ==
    /\ \A a, b \in Live : a # b => windows[a].z_order # windows[b].z_order
    /\ \A i, j \in 1..Len(history) : i < j => history[i][2] < history[j][2]
    /\ \A l \in Live : \E i \in 1..Len(history) :
          /\ history[i][1] = l
          /\ history[i][2] = windows[l].z_order
          /\ \A j \in (i+1)..Len(history) : history[j][1] # l
C3_Witness ==
    /\ Cardinality(Live) >= 2
    /\ Len(history) >= 3
    /\ lastOp.op = "focus_window" /\ lastOp.hit
    /\ \E i \in 1..Len(history) : history[i][3] = "add_window"

\* index of the last successful add_window/focus_window that targeted l
LastTargeted(l) ==
    LET idx == {i \in 1..Len(history) : history[i][1] = l}
    IN  IF idx = {} THEN 0 ELSE CHOOSE i \in idx : \A j \in idx : j <= i
MostRecentTarget ==
    CHOOSE l \in Live : \A k \in Live : LastTargeted(k) <= LastTargeted(l)

\* C4: in a non-empty registry the live record that was most recently the target
\* of a successful focus_window or add_window holds the maximum z_order.
C4_RecentTargetOnTop ==
    Live # {} =>
        \A k \in Live : windows[k].z_order <= windows[MostRecentTarget].z_order
C4_Witness ==
    /\ Cardinality(Live) >= 2
    /\ lastOp.op = "remove_window" /\ lastOp.foc
    /\ focused_window # MostRecentTarget
    /\ \A k \in Live \ {MostRecentTarget} :
          windows[k].z_order < windows[MostRecentTarget].z_order

\* the step is a focus_window(l) that directly follows a focus_window(l), l live
SecondFocus(l) ==
    /\ lastOp.op = "focus_window" /\ lastOp.label = l /\ lastOp.hit
    /\ l \in Live
    /\ focus_window(l)

\* C5 (as stated): focus_window(id) twice in succession leaves id focused with
\* the z_order value it had after the first call.
C5_FocusTwiceSameZOrder ==
    [][\A l \in Labels :
          SecondFocus(l) =>
              /\ windows'[l].is_focused
              /\ windows'[l].z_order = windows[l].z_order]_vars

\* C5 (amended): the second of two successive focus_window(id) calls leaves id
\* focused and frontmost and every other record as it was, so the stacking order
\* is the same; id's z_order is the next counter value, one more than after the
\* first call.
C5_FocusTwiceSameOrder ==
    [][\A l \in Labels :
          SecondFocus(l) =>
              /\ windows'[l].is_focused /\ focused_window' = l
              /\ focused_window = l
              /\ DOMAIN windows' = DOMAIN windows
              /\ \A k \in Live \ {l} :
                    /\ windows'[k] = windows[k]
                    /\ windows[k].z_order < windows[l].z_order
                    /\ windows'[k].z_order < windows'[l].z_order
              /\ windows'[l].z_order = windows[l].z_order + 1
              /\ z_order_counter' = z_order_counter + 1]_vars
C5_Witness ==
    /\ lastOp.op = "focus_window" /\ lastOp.hit /\ lastOp.rep
    /\ Cardinality(Live) >= 2
    /\ Len(history) >= 2
    /\ history[Len(history)][3] = "focus_window"
    /\ history[Len(history) - 1][3] = "focus_window"
    /\ history[Len(history)][1] = history[Len(history) - 1][1]

C7_TieBrokenByZOrder ==
    [][\A l \in Labels :
          (remove_window(l) /\ focused_window = l /\ Live \ {l} # {}) =>
              LET rest == Live \ {l}
                  latest == {k \in rest : \A j \in rest :
                               windows[j].last_focused_at <= windows[k].last_focused_at}
              IN  /\ focused_window' \in latest
                  /\ \A k \in latest :
                        windows[k].z_order <= windows[focused_window'].z_order]_vars

\* C8: remove_window on a label that is not in the registry leaves the registry
\* unchanged; so the second of two removals of the same label changes nothing.
C8_RemoveUnknownNoOp ==
    [][\A l \in Labels :
          /\ (l \notin Live /\ remove_window(l)) => UNCHANGED regvars
          /\ (lastOp.op = "remove_window" /\ lastOp.label = l /\ remove_window(l))
                => UNCHANGED regvars
          /\ remove_window(l) => l \notin DOMAIN windows']_vars
C8_Witness ==
    /\ lastOp.op = "remove_window" /\ lastOp.rep /\ ~lastOp.hit
    /\ focused_window \in Live
    /\ Cardinality(Live) >= 2

\* C9: get_focused_window returns a record only if its is_focused flag is true,
\* and returns None only if no live record has the flag.
C9_PointerAgreesWithFlags ==
    /\ \A w \in get_focused_window : w.is_focused
    /\ get_focused_window = {} => FocusedLabels = {}

\* C10: update_window_state changes only the supplied fields of the named
\* record; fields passed as None, the record's other fields, every other
\* record, focused_window and z_order_counter stay; an unknown label changes
\* nothing.
C10_UpdateFrame ==
    [][LET l  == lastOp'.label
           mi == lastOp'.args[1]
           ma == lastOp'.args[2]
           mo == lastOp'.args[3]
       IN  (/\ lastOp'.op = "update_window_state"
            /\ update_window_state(l, mi, ma, mo)) =>
              /\ z_order_counter' = z_order_counter
              /\ focused_window' = focused_window
              /\ DOMAIN windows' = DOMAIN windows
              /\ \A k \in Live \ {l} : windows'[k] = windows[k]
              /\ l \in Live =>
                    /\ windows'[l].is_minimized =
                          (IF mi = {} THEN windows[l].is_minimized ELSE mi = {TRUE})
                    /\ windows'[l].is_maximized =
                          (IF ma = {} THEN windows[l].is_maximized ELSE ma = {TRUE})
                    /\ windows'[l].monitor_id =
                          (IF mo = None THEN windows[l].monitor_id ELSE mo)
                    /\ windows'[l].label = windows[l].label
                    /\ windows'[l].config = windows[l].config
                    /\ windows'[l].z_order = windows[l].z_order
                    /\ windows'[l].is_focused = windows[l].is_focused
                    /\ windows'[l].created_at = windows[l].created_at
                    /\ windows'[l].last_focused_at = windows[l].last_focused_at]_vars
C10_Witness ==
    /\ lastOp.op = "update_window_state" /\ lastOp.hit
    /\ lastOp.args = <<{TRUE}, {}, None>>
    /\ windows[lastOp.label].is_minimized
    /\ windows[lastOp.label].is_maximized
    /\ windows[lastOp.label].monitor_id = "primary"
    /\ Cardinality(Live) = 2

\* C11: get_windows_by_z_order returns every live record exactly once, in
\* strictly descending z_order, and the call leaves the registry as it was.
C11_SortedSnapshot ==
    \A s \in get_windows_by_z_order :
        /\ Len(s) = Cardinality(Live)
        /\ \A i \in 1..Len(s) : \E l \in Live : s[i] = windows[l]
        /\ \A l \in Live : Cardinality({i \in 1..Len(s) : s[i] = windows[l]}) = 1
        /\ \A i \in 1..(Len(s) - 1) : s[i].z_order > s[i + 1].z_order
C11_Witness ==
    /\ lastOp.op = "get_window_list"
    /\ Cardinality(Live) >= 2
    /\ \E s \in get_windows_by_z_order : s[1].label # focused_window

\* C19: focused_window is None exactly when the map is empty, and otherwise it
\* names a key of the map.
C19_PointerNeverDangles ==
    /\ (focused_window = None) <=> (Live = {})
    /\ focused_window # None => focused_window \in Live
C19_Witness ==
    /\ lastOp.op = "remove_window" /\ lastOp.hit /\ lastOp.foc
    /\ Live # {}
    /\ focused_window \in Live
    /\ \E l \in Live : windows[l].is_minimized

\* C20: in a non-empty registry the record get_focused_window returns is the
\* first element of get_windows_by_z_order: the focused window has the maximum
\* z_order.
C20_FocusedIsFrontmost ==
    Live # {} =>
        /\ get_focused_window # {}
        /\ \A w \in get_focused_window : \A s \in get_windows_by_z_order : s[1] = w

\* the reference: the element after/before the current one, circularly; the
\* first element when the current id is missing; None for an empty sequence
CycleReference(ids, current, forward) ==
    LET n == Len(ids)
        at == {i \in 1..n : ids[i] = current}
    IN  IF n = 0 THEN None
        ELSE IF current = None \/ at = {} THEN ids[1]
        ELSE LET i == (CHOOSE a \in at : \A b \in at : a <= b) - 1
             IN  IF forward THEN ids[((i + 1) % n) + 1]
                            ELSE ids[((i - 1 + n) % n) + 1]

\* C12: the target cycle_windows chooses equals the reference (forward (i+1) mod
\* n, backward (i-1) mod n, first element for an absent or missing current id),
\* and with an empty sequence the call ends without a target and without
\* touching the registry.
C12_CycleTarget ==
    [][/\ cyc'.pc = "focus" =>
             /\ cyc'.next_window # None
             /\ cyc'.next_window =
                   CycleReference(cyc'.windows, cyc'.current_focused, cyc'.forward)
       /\ (cycle_read_windows /\ Live = {}) =>
             /\ cyc' = CycIdle
             /\ UNCHANGED regvars]_vars
C12_Witness ==
    /\ cyc.pc = "focus"
    /\ ~cyc.forward
    /\ Len(cyc.windows) = 3
    /\ cyc.current_focused = cyc.windows[1]
    /\ cyc.next_window = cyc.windows[3]

\* C13: cycle_windows is atomic: between its first read and its focus no step
\* of another command or event handler changes the registry.
C13_CycleAtomic ==
    [][(cyc.pc # "idle" /\ cyc' = cyc) => UNCHANGED regvars]_vars

\* C14: save_window_state does not serialize or write the file while it holds
\* the registry lock.
C14_NoFileWriteUnderLock ==
    save.pc = "write" => lock # "save_window_state"

\* the labels of the successful attempts, in order
Succeeded(attempts) == SelectSeq(attempts, LAMBDA a : a # None)

\* C15: load_window_state attempts every saved snapshot in saved order whatever
\* failed before, and returns exactly the labels of those it created, in order.
C15_RestoreAttemptsAll ==
    /\ load.pc = "failed" => load.attempts = <<>>
    /\ load.pc \in {"create", "restore", "done"} =>
          /\ load.restored_labels = Succeeded(load.attempts)
          /\ \A k \in 1..Len(load.attempts) :
                load.attempts[k] # None =>
                    \E t \in 0..MaxTime :
                        load.attempts[k] = MkLabel(load.saved_windows[k].config, t)
    /\ load.pc = "done" =>
          Len(load.attempts) = Len(load.saved_windows)
C15_Witness ==
    /\ load.pc = "done"
    /\ Len(load.saved_windows) = 2
    /\ load.attempts[1] = None
    /\ load.attempts[2] # None
    /\ Len(load.restored_labels) = 1

\* C16: every snapshot whose creation failed is reported by index.
C16_FailuresReported ==
    load.pc = "done" =>
        \A k \in 1..Len(load.attempts) :
            load.attempts[k] = None =>
                \E e \in 1..Len(load.reported_failures) :
                    load.reported_failures[e] = k - 1

\* C17: after save, restart and a load in which every creation succeeds and
\* nothing else runs, the restored windows are stacked like the saved ones and
\* the restored copy of the saved focused window is focused.
C17_RestorePreservesOrderAndFocus ==
    (/\ load.pc = "done"
     /\ load.quiet
     /\ \A k \in 1..Len(load.attempts) : load.attempts[k] # None) =>
        LET saved == load.saved_windows
            r == load.restored_labels
        IN  /\ \A i, j \in 1..Len(saved) :
                  (saved[i].z_order > saved[j].z_order)
                     <=> (windows[r[i]].z_order > windows[r[j]].z_order)
            /\ \A i \in 1..Len(saved) :
                  saved[i].is_focused =>
                      /\ focused_window = r[i]
                      /\ windows[r[i]].is_focused

\* the rectangle the claim gives for a region
C18_Table(position) ==
    CASE position = "Left"        -> [x |-> 0,   y |-> 0,   width |-> 960,  height |-> 1080]
      [] position = "Right"       -> [x |-> 960, y |-> 0,   width |-> 960,  height |-> 1080]
      [] position = "Top"         -> [x |-> 0,   y |-> 0,   width |-> 1920, height |-> 540]
      [] position = "Bottom"      -> [x |-> 0,   y |-> 540, width |-> 1920, height |-> 540]
      [] position = "TopLeft"     -> [x |-> 0,   y |-> 0,   width |-> 960,  height |-> 540]
      [] position = "TopRight"    -> [x |-> 960, y |-> 0,   width |-> 960,  height |-> 540]
      [] position = "BottomLeft"  -> [x |-> 0,   y |-> 540, width |-> 960,  height |-> 540]
      [] position = "BottomRight" -> [x |-> 960, y |-> 540, width |-> 960,  height |-> 540]
      [] position = "Center"      -> [x |-> 288, y |-> 162, width |-> 1344, height |-> 756]

RectsDisjoint(a, b) ==
    \/ a.x + a.width <= b.x
    \/ b.x + b.width <= a.x
    \/ a.y + a.height <= b.y
    \/ b.y + b.height <= a.y

RECURSIVE AreaSum(_)
AreaSum(S) ==
    IF S = {} THEN 0
    ELSE LET p == CHOOSE q \in S : TRUE
         IN  SnapRect(p).width * SnapRect(p).height + AreaSum(S \ {p})

\* the regions of S lie in the 1920x1080 area, do not overlap and fill it
Tiles(S) ==
    /\ \A p \in S :
          /\ SnapRect(p).x >= 0 /\ SnapRect(p).y >= 0
          /\ SnapRect(p).x + SnapRect(p).width <= 1920
          /\ SnapRect(p).y + SnapRect(p).height <= 1080
    /\ \A p, q \in S : p # q => RectsDisjoint(SnapRect(p), SnapRect(q))
    /\ AreaSum(S) = 1920 * 1080

\* C18: a window that snap_window has snapped to a region has the rectangle the
\* table gives for it; the two halves of each split and the four quadrants are
\* pairwise disjoint and cover the 1920x1080 area.
C18_SnapGeometry ==
    /\ \A l \in DOMAIN app :
          app[l].snapped \in SnapPositions \ {"Maximize"} =>
              [x |-> app[l].x, y |-> app[l].y,
               width |-> app[l].width, height |-> app[l].height]
                 = C18_Table(app[l].snapped)
    /\ \A p \in SnapPositions \ {"Maximize"} : SnapRect(p) = C18_Table(p)
    /\ Tiles({"Left", "Right"})
    /\ Tiles({"Top", "Bottom"})
    /\ Tiles({"TopLeft", "TopRight", "BottomLeft", "BottomRight"})
C18_Witness ==
    \E l \in DOMAIN app : app[l].snapped = "Center" /\ app[l].x = 288

\* C21: as many cycle_windows calls in a row, all in one direction and each
\* focusing its target, as there are windows have focused every window (and so
\* each exactly once).
C21_CycleReachesAll ==
    (Live # {} /\ Len(run.focused) = Cardinality(Live)) =>
        {run.focused[i] : i \in 1..Len(run.focused)} = Live

\* what lastOp.op holds after a command has returned the Err of its platform call
ErrOps ==
    {"Err: " \o name :
        name \in {"create_app_window", "close_app_window", "focus_app_window",
                  "minimize_window", "maximize_window", "unmaximize_window"}}

\* C22: a command whose platform call fails returns the error and leaves the
\* registry (records, focus, z_order_counter) exactly as it was; a failed
\* creation registers nothing.
C22_FailedCommandKeepsRegistry ==
    [][(lastOp' # lastOp /\ lastOp'.op \in ErrOps) => UNCHANGED regvars]_vars
C22_Witness ==
    /\ lastOp.op = "Err: create_app_window"
    /\ Cardinality(Live) = 2
    /\ focused_window \in Live
    /\ \E l \in Live : windows[l].is_maximized

\* the counter's cap is reached: the calls that would assign a z_order stop
AtCapL == z_order_counter >= MaxCounterL

\* C23: the lock is never held for ever (so who asks for it gets it under fair
\* scheduling), and the calls that take it more than once go on to their end:
\* cycle_windows through its lock blocks and focus_app_window, and
\* load_window_state through create_app_window and minimize_window or
\* maximize_window for every snapshot.
C23_LockProgress ==
    /\ (lock # None) ~> (lock = None)
    /\ (cyc.pc = "read_windows") ~> (cyc.pc # "read_windows")
    /\ (cyc.pc = "focus") ~> (cyc.pc = "idle" \/ AtCapL)
    /\ (load.pc \in {"create", "restore"}) ~> (load.pc \in {"idle", "done"} \/ AtCapL)
C23_Witness ==
    /\ lock = "get_all_window_states"
    /\ cyc.pc = "focus"
    /\ load.pc = "restore"
    /\ load.saved_windows[load.i].is_minimized

\* C24: when load_window_state has created the window of a snapshot and applied
\* its state without a platform error and with nothing else running, the new
\* record's is_minimized and is_maximized equal the snapshot's, whatever the
\* two flags are.
C24_RestoredFlags ==
    [][(/\ load.pc = "restore"
        /\ load'.pc = "create"
        /\ load'.quiet
        /\ lastOp'.op \notin ErrOps) =>
           LET window_state == load.saved_windows[load.i]
               label == load.label
           IN  /\ label \in DOMAIN windows'
               /\ windows'[label].is_minimized = window_state.is_minimized
               /\ windows'[label].is_maximized = window_state.is_maximized]_vars
====
